---- MODULE Spec2Model ----
(***************************************************************************)
(* Leader election of the Raft simulation in                               *)
(* high-level-design/05-advanced-concepts/05-consensus-raft/main.go.       *)
(*                                                                         *)
(* Every goroutine of the program is a process of the model: the event     *)
(* loop of each node (RaftNode.Start), the goroutines startElection spawns *)
(* to send RequestVote, the goroutines handleRequestVote spawns to call    *)
(* receiveVote on the candidate, the sendHeartbeats loops and main.  A     *)
(* step is one critical section of rn.mu or one channel operation.         *)
(***************************************************************************)
EXTENDS Integers, Sequences, FiniteSets, TLC

\* main creates three nodes with ids 1, 2, 3.
N == 3

\* Bound on the number of elections started in one run, over all nodes.
MaxElections == 2

\* The nodes whose election timeouts are handled, in this order, in the runs of
\* SpecOrder: node 1 twice, with an election of node 2 between, then node 3.
ElectionOrder == <<1, 2, 1, 3>>

\* The nodes whose election timeouts are handled, in this order, in the runs of
\* FairSplit: every node once.
SplitOrder == <<1, 2, 3>>

\* The nodes whose election timeouts are handled, in this order, in the runs of
\* SpecDemote: node 1, then node 2, then node 1 again.
DemoteOrder == <<1, 2, 1>>

\* The nodes whose election timeouts are handled, in this order, in the runs of
\* SpecCrash.
CrashOrder == <<1, 2, 2, 1, 3>>

\* The nodes whose election timeouts are handled, in this order, in the runs of
\* SpecStable: nodes 1, 2 and 3, then node 1 again.
StableOrder == <<1, 2, 3, 1>>

\* The nodes whose election timeouts are handled in the runs of SpecHappy: only
\* the timer of node 1 fires.
HappyOrder == <<1>>

\* The largest cluster of the runs of SpecCluster, which start from a cluster of
\* one node or more.
MaxCluster == 2

\* Bound on the number of heartbeat rounds started in one run, over all nodes.
MaxRounds == 1

\* Modelled capacity of the buffered channels (make(chan ..., 10) in the code).
MaxQueue == 1

Nodes == 1..N

\* Quorum, (N / 2) + 1 in integer division: 2 of 3.
Quorum == (N \div 2) + 1

\* votedFor = -1 means null.
NoVote == -1

Follower == "Follower"
Candidate == "Candidate"
Leader == "Leader"
RaftState == {Follower, Candidate, Leader}

VARIABLES
    currentTerm,    \* rn.currentTerm, per node
    votedFor,       \* rn.votedFor, per node
    state,          \* rn.state, per node
    electionTimer,  \* rn.electionTimer: [armed, fired]; fired = a value waits in timer.C
    voteReqChan,    \* rn.voteReqChan, per node: sequence of RequestVoteArgs
    heartbeatChan,  \* rn.heartbeatChan, per node: sequence of HeartbeatArgs
    voteSenders,    \* goroutines of startElection blocked on p.voteReqChan <- args
    voteNotifiers,  \* goroutines of handleRequestVote about to call candidate.receiveVote()
    broadcasters,   \* running sendHeartbeats loops
    mainPc,         \* position of main after starting the nodes
    scanned,        \* how many nodes main's search for the leader has looked at
    leader,         \* main's local variable leader (0 = nil)
    crashTerm,      \* currentTerm of the node main crashed, if it was Leader then; else -1
    successor,      \* since that crash another node has been Leader of a higher term
    asyncTimerChan, \* the build's timer semantics: TRUE when a fired value survives Stop/Reset
    peers,          \* rn.peers, the slice main gives every node: the nodes of the cluster
    elections,      \* number of elections started so far (bounded by MaxElections)
    rounds          \* number of heartbeat rounds started so far (bounded by MaxRounds)

vars == <<currentTerm, votedFor, state, electionTimer, voteReqChan, heartbeatChan,
          voteSenders, voteNotifiers, broadcasters, mainPc, scanned, leader, crashTerm,
          successor, asyncTimerChan, peers, elections, rounds>>

nodeVars == <<currentTerm, votedFor, state>>
mainVars == <<mainPc, scanned, leader, crashTerm>>
countVars == <<elections, rounds>>

\* Some node other than the one main crashed is Leader, in the states st, of a
\* term above t.
LeaderAbove(st, t) ==
    \E n \in Nodes \ {leader} : st[n] = Leader /\ currentTerm[n] > t

RequestVoteArgs(term, cand) == [Term |-> term, CandidateID |-> cand]
HeartbeatArgs(term, ldr) == [Term |-> term, LeaderID |-> ldr]

\* NewTimer for a timer that is created stopped.
NewStoppedTimer == [armed |-> FALSE, fired |-> FALSE]

\* time.NewTimer(duration): the timer is pending, nothing waits in its channel.
NewTimer == [armed |-> TRUE, fired |-> FALSE]

\* TimerReset for a Reset that leaves the timer as it is, its old deadline
\* included.
TimerKeep(t) == t

\* electionTimer.Reset(d): the timer is pending again.  A value that already
\* waits in the channel stays there when the build keeps the buffered timer
\* channel, and is discarded otherwise.
TimerReset(t) == [armed |-> TRUE, fired |-> t.fired /\ asyncTimerChan]

\* electionTimer.Stop(): the timer is no longer pending; the channel is not drained.
TimerStop(t) == [armed |-> FALSE, fired |-> t.fired /\ asyncTimerChan]

\* rn.electionTimer of a node that is not created: no timer.
NoTimer == [armed |-> FALSE, fired |-> FALSE]

\* A cluster of the nodes ps: NewRaftNode for every node of ps, n.peers = nodes,
\* then Start's resetElectionTimer.
NewCluster(ps) ==
    /\ currentTerm = [n \in Nodes |-> 0]
    /\ votedFor = [n \in Nodes |-> NoVote]
    /\ state = [n \in Nodes |-> Follower]
    /\ electionTimer = [n \in Nodes |-> IF n \in ps THEN NewTimer ELSE NoTimer]
    /\ voteReqChan = [n \in Nodes |-> <<>>]
    /\ heartbeatChan = [n \in Nodes |-> <<>>]
    /\ voteSenders = {}
    /\ voteNotifiers = {}
    /\ broadcasters = {}
    /\ mainPc = "scan"
    /\ scanned = 0
    /\ leader = 0
    /\ crashTerm = -1
    /\ successor = FALSE
    /\ asyncTimerChan \in BOOLEAN
    /\ peers = ps
    /\ elections = 0
    /\ rounds = 0

\* main: the cluster of the three nodes.
Init == NewCluster(Nodes)

\* The runtime fires the pending timer: a value becomes available on timer.C.
TimerFire(n) ==
    /\ electionTimer[n].armed
    /\ electionTimer' = [electionTimer EXCEPT ![n] = [armed |-> FALSE, fired |-> TRUE]]
    /\ UNCHANGED <<nodeVars, voteReqChan, heartbeatChan, voteSenders, voteNotifiers,
                   broadcasters, mainVars, successor, asyncTimerChan, peers, countVars>>

\* The peers a node sends to: every element of rn.peers but itself, in slice order.
FirstPeer(id) ==
    IF peers \ {id} = {} THEN 0
    ELSE CHOOSE p \in peers \ {id} : \A q \in peers \ {id} : p <= q

NextPeer(id, p) ==
    LET later == {q \in peers \ {id} : q > p}
    IN  IF later = {} THEN 0 ELSE CHOOSE q \in later : \A r \in later : q <= r

\* startElection: the goroutines sending RequestVote to every peer but the sender.
VoteRequests(id, term) ==
    {[to |-> p, args |-> RequestVoteArgs(term, id)] : p \in peers \ {id}}

\* startElection with the sends made by the event loop itself instead of by
\* goroutines: the handler needs room in the channel of every peer.
startElectionInline(n) ==
    /\ electionTimer[n].fired
    /\ electionTimer' = [electionTimer EXCEPT ![n].fired = FALSE]
    /\ IF state[n] = Leader
       THEN UNCHANGED <<nodeVars, voteReqChan, elections>>
       ELSE /\ \A p \in peers \ {n} : Len(voteReqChan[p]) < MaxQueue
            /\ state' = [state EXCEPT ![n] = Candidate]
            /\ currentTerm' = [currentTerm EXCEPT ![n] = currentTerm[n] + 1]
            /\ votedFor' = [votedFor EXCEPT ![n] = n]
            /\ voteReqChan' = [p \in Nodes |->
                                  IF p \in peers \ {n}
                                  THEN Append(voteReqChan[p],
                                              RequestVoteArgs(currentTerm[n] + 1, n))
                                  ELSE voteReqChan[p]]
            /\ elections' = elections + 1
    /\ UNCHANGED <<voteSenders, heartbeatChan, voteNotifiers, broadcasters, mainVars,
                   successor, asyncTimerChan, peers, rounds>>

\* rn.startElection(), run by the event loop when it takes the timer case of its
\* select: nothing at a Leader, else a new candidacy.
startElection(n) ==
    /\ electionTimer[n].fired
    /\ electionTimer' = [electionTimer EXCEPT ![n].fired = FALSE]
    /\ IF state[n] = Leader
       THEN UNCHANGED <<nodeVars, voteSenders, elections>>
       ELSE /\ state' = [state EXCEPT ![n] = Candidate]
            /\ currentTerm' = [currentTerm EXCEPT ![n] = currentTerm[n] + 1]
            /\ votedFor' = [votedFor EXCEPT ![n] = n]
            /\ voteSenders' = voteSenders \cup VoteRequests(n, currentTerm[n] + 1)
            /\ elections' = elections + 1
    /\ UNCHANGED <<voteReqChan, heartbeatChan, voteNotifiers, broadcasters, mainVars,
                   successor, asyncTimerChan, peers, rounds>>

\* The timer case of the select, in the runs with at most MaxElections elections.
ElectionTimeout(n) ==
    /\ state[n] = Leader \/ elections < MaxElections
    /\ startElection(n)

\* The timer case of the select, in the runs whose elections are started by the
\* nodes of order, one after the other.
OrderedTimeout(n, order) ==
    /\ \/ state[n] = Leader
       \/ elections < Len(order) /\ order[elections + 1] = n
    /\ startElection(n)

\* A goroutine of startElection completes p.voteReqChan <- args.
VoteSend(m) ==
    /\ m \in voteSenders
    /\ Len(voteReqChan[m.to]) < MaxQueue
    /\ voteReqChan' = [voteReqChan EXCEPT ![m.to] = Append(@, m.args)]
    /\ voteSenders' = voteSenders \ {m}
    /\ UNCHANGED <<nodeVars, electionTimer, heartbeatChan, voteNotifiers, broadcasters,
                   mainVars, successor, asyncTimerChan, peers, countVars>>

\* SawHigherTerm for a node that never adopts the term of a request.
SawHigherNever(argsTerm, term) == FALSE

\* handleRequestVote, first test: a higher term makes the node a Follower of that term.
SawHigherTerm(argsTerm, term) == argsTerm > term

\* Outdated for a node that rejects no request for its term.
OutdatedNever(argsTerm, term) == FALSE

\* handleRequestVote, second test: an outdated term is rejected.
Outdated(argsTerm, term) == argsTerm < term

\* CanGrant with the test of votedFor reversed: the vote is granted unless it is
\* free or was already given to this candidate.
CanGrantOther(voted, cand) == voted # NoVote /\ voted # cand

\* CanGrant for a node that grants no vote at all.
CanGrantNever(voted, cand) == FALSE

\* CanGrant without the votedFor test: every request of the current term is granted.
CanGrantAlways(voted, cand) == TRUE

\* handleRequestVote, third test: the vote is free or already given to this candidate.
CanGrant(voted, cand) == voted = NoVote \/ voted = cand

\* The event loop takes the voteReqChan case of its select: rn.handleRequestVote(args).
HandleRequestVote(n) ==
    /\ voteReqChan[n] # <<>>
    /\ LET args == Head(voteReqChan[n])
           higher == SawHigherTerm(args.Term, currentTerm[n])
           term1 == IF higher THEN args.Term ELSE currentTerm[n]
           state1 == IF higher THEN Follower ELSE state[n]
           voted1 == IF higher THEN NoVote ELSE votedFor[n]
           granted == ~Outdated(args.Term, term1) /\ CanGrant(voted1, args.CandidateID)
       IN  /\ voteReqChan' = [voteReqChan EXCEPT ![n] = Tail(@)]
           /\ currentTerm' = [currentTerm EXCEPT ![n] = term1]
           /\ state' = [state EXCEPT ![n] = state1]
           /\ votedFor' = [votedFor EXCEPT ![n] =
                               IF granted THEN args.CandidateID ELSE voted1]
           /\ electionTimer' = [electionTimer EXCEPT ![n] =
                                    IF granted THEN TimerReset(@) ELSE @]
           /\ voteNotifiers' = IF granted
                               THEN voteNotifiers \cup {[voter |-> n, args |-> args]}
                               ELSE voteNotifiers
    /\ UNCHANGED <<heartbeatChan, voteSenders, broadcasters, mainVars, successor,
                   asyncTimerChan, peers, countVars>>

\* go rn.sendHeartbeats(): a loop about to take the lock for the first time.
\* born is the term at which the node became Leader when it started the loop;
\* it tells the loops of one node apart.
NewBroadcaster(id, born) == [id |-> id, born |-> born, pc |-> "check", term |-> 0, next |-> 0]

\* WinsOnVote for a receiveVote without the test of the state.
WinsAlways(s) == TRUE

\* WinsOnVote for a receiveVote that never makes the node Leader.
WinsNever(s) == FALSE

\* receiveVote: what the node's state must be for the vote to make it Leader.
WinsOnVote(s) == s = Candidate

\* A goroutine of handleRequestVote runs candidate.receiveVote().
ReceiveVote(g) ==
    /\ g \in voteNotifiers
    /\ voteNotifiers' = voteNotifiers \ {g}
    /\ LET c == g.args.CandidateID
       IN  IF WinsOnVote(state[c])
           THEN /\ state' = [state EXCEPT ![c] = Leader]
                /\ broadcasters' = broadcasters \cup {NewBroadcaster(c, currentTerm[c])}
           ELSE UNCHANGED <<state, broadcasters>>
    /\ successor' = (successor \/ (crashTerm # -1 /\ LeaderAbove(state', crashTerm)))
    /\ UNCHANGED <<currentTerm, votedFor, electionTimer, voteReqChan, heartbeatChan,
                   voteSenders, mainVars, asyncTimerChan, peers, countVars>>

\* KeepsBroadcasting for a loop that does not test the state.
KeepsAlways(s) == TRUE

\* sendHeartbeats, the test under the lock: the loop goes on while the node is Leader.
KeepsBroadcasting(s) == s = Leader

\* sendHeartbeats, top of the loop (after the sleep of the previous round): under
\* the lock, return unless Leader, else take the term for this round.
HeartbeatCheck(b) ==
    /\ b \in broadcasters
    /\ b.pc = "check"
    /\ ~KeepsBroadcasting(state[b.id]) \/ rounds < MaxRounds
    /\ IF ~KeepsBroadcasting(state[b.id])
       THEN /\ broadcasters' = broadcasters \ {b}
            /\ UNCHANGED rounds
       ELSE /\ rounds' = rounds + 1
            /\ broadcasters' =
                 IF FirstPeer(b.id) = 0
                 THEN broadcasters
                 ELSE (broadcasters \ {b}) \cup
                      {[b EXCEPT !.pc = "send", !.term = currentTerm[b.id],
                                 !.next = FirstPeer(b.id)]}
    /\ UNCHANGED <<nodeVars, electionTimer, voteReqChan, heartbeatChan, voteSenders,
                   voteNotifiers, mainVars, successor, asyncTimerChan, peers, elections>>

\* sendHeartbeats, one iteration of the loop over rn.peers:
\* peer.heartbeatChan <- HeartbeatArgs{Term: term, LeaderID: rn.id}; after the
\* last peer the loop sleeps and comes back to the test.
HeartbeatSend(b) ==
    /\ b \in broadcasters
    /\ b.pc = "send"
    /\ Len(heartbeatChan[b.next]) < MaxQueue
    /\ heartbeatChan' = [heartbeatChan EXCEPT ![b.next] =
                             Append(@, HeartbeatArgs(b.term, b.id))]
    /\ broadcasters' =
         (broadcasters \ {b}) \cup
         {IF NextPeer(b.id, b.next) = 0
          THEN NewBroadcaster(b.id, b.born)
          ELSE [b EXCEPT !.next = NextPeer(b.id, b.next)]}
    /\ UNCHANGED <<nodeVars, electionTimer, voteReqChan, voteSenders, voteNotifiers,
                   mainVars, successor, asyncTimerChan, peers, countVars>>

\* AcceptsHeartbeat for a node that ignores every heartbeat.
AcceptsNoHeartbeat(argsTerm, term) == FALSE

\* AcceptsHeartbeat with the test reversed: only a stale heartbeat is accepted.
AcceptsStaleHeartbeat(argsTerm, term) == argsTerm < term

\* AcceptsHeartbeat with a strict test: a heartbeat of the node's own term is
\* ignored.
AcceptsHigherHeartbeat(argsTerm, term) == argsTerm > term

\* AcceptsHeartbeat without the term test: a stale heartbeat is accepted too.
AcceptsAnyHeartbeat(argsTerm, term) == TRUE

\* handleHeartbeat: the heartbeat is accepted.
AcceptsHeartbeat(argsTerm, term) == argsTerm >= term

\* The event loop takes the heartbeatChan case of its select: rn.handleHeartbeat(args).
HandleHeartbeat(n) ==
    /\ heartbeatChan[n] # <<>>
    /\ LET args == Head(heartbeatChan[n])
       IN  /\ heartbeatChan' = [heartbeatChan EXCEPT ![n] = Tail(@)]
           /\ IF AcceptsHeartbeat(args.Term, currentTerm[n])
              THEN /\ currentTerm' = [currentTerm EXCEPT ![n] = args.Term]
                   /\ state' = [state EXCEPT ![n] = Follower]
                   /\ electionTimer' = [electionTimer EXCEPT ![n] = TimerReset(@)]
              ELSE UNCHANGED <<currentTerm, state, electionTimer>>
    /\ UNCHANGED <<votedFor, voteReqChan, voteSenders, voteNotifiers, broadcasters,
                   mainVars, successor, asyncTimerChan, peers, countVars>>

\* main, the loop looking for the leader: one node is examined under its lock.
MainScan ==
    /\ mainPc = "scan"
    /\ scanned' = scanned + 1
    /\ leader' = IF state[scanned + 1] = Leader THEN scanned + 1 ELSE leader
    /\ mainPc' = IF scanned + 1 < N THEN "scan"
                 ELSE IF leader' # 0 THEN "crash" ELSE "done"
    /\ UNCHANGED <<nodeVars, electionTimer, voteReqChan, heartbeatChan, voteSenders,
                   voteNotifiers, broadcasters, crashTerm, successor, asyncTimerChan, peers,
                   countVars>>

\* main, the crash block: the leader found is demoted and its timer stopped.
MainCrash ==
    /\ mainPc = "crash"
    /\ state' = [state EXCEPT ![leader] = Follower]
    /\ electionTimer' = [electionTimer EXCEPT ![leader] = TimerStop(@)]
    /\ mainPc' = "done"
    /\ crashTerm' = IF state[leader] = Leader THEN currentTerm[leader] ELSE -1
    /\ successor' = (crashTerm' # -1 /\ LeaderAbove(state', crashTerm'))
    /\ UNCHANGED <<currentTerm, votedFor, voteReqChan, heartbeatChan, voteSenders,
                   voteNotifiers, broadcasters, scanned, leader, asyncTimerChan, peers,
                   countVars>>

Next ==
    \/ \E n \in Nodes : TimerFire(n)
    \/ \E n \in Nodes : ElectionTimeout(n)
    \/ \E m \in voteSenders : VoteSend(m)
    \/ \E n \in Nodes : HandleRequestVote(n)
    \/ \E g \in voteNotifiers : ReceiveVote(g)
    \/ \E b \in broadcasters : HeartbeatCheck(b)
    \/ \E b \in broadcasters : HeartbeatSend(b)
    \/ \E n \in Nodes : HandleHeartbeat(n)
    \/ MainScan
    \/ MainCrash

Spec == Init /\ [][Next]_vars

\* The runs in which the elections are started in the order ElectionOrder while
\* main is still asleep (time.Sleep(2 * time.Second)) and no sendHeartbeats
\* goroutine has been scheduled yet.
NextOrder ==
    \/ \E n \in Nodes : TimerFire(n)
    \/ \E n \in Nodes : OrderedTimeout(n, ElectionOrder)
    \/ \E m \in voteSenders : VoteSend(m)
    \/ \E n \in Nodes : HandleRequestVote(n)
    \/ \E g \in voteNotifiers : ReceiveVote(g)

SpecOrder == Init /\ [][NextOrder]_vars

\* The steps of the nodes up to the election of a leader, with the elections
\* started in the order SplitOrder; main is still asleep.
NextSplit ==
    \/ \E n \in Nodes : TimerFire(n)
    \/ \E n \in Nodes : OrderedTimeout(n, SplitOrder)
    \/ \E m \in voteSenders : VoteSend(m)
    \/ \E n \in Nodes : HandleRequestVote(n)
    \/ \E g \in voteNotifiers : ReceiveVote(g)

\* What the scheduling guarantees: an armed timer fires, a ready case of the
\* select of an event loop is taken, a goroutine that can run does run.
FairnessSplit ==
    /\ \A n \in Nodes : WF_vars(TimerFire(n))
    /\ \A n \in Nodes : WF_vars(OrderedTimeout(n, SplitOrder))
    /\ \A n \in Nodes : WF_vars(HandleRequestVote(n))
    /\ WF_vars(\E m \in voteSenders : VoteSend(m))
    /\ WF_vars(\E g \in voteNotifiers : ReceiveVote(g))

FairSplit == Init /\ [][NextSplit]_vars /\ FairnessSplit

\* The steps of the nodes and of their heartbeat loops, with the elections
\* started in the order DemoteOrder; main is still asleep.
NextDemote ==
    \/ \E n \in Nodes : TimerFire(n)
    \/ \E n \in Nodes : OrderedTimeout(n, DemoteOrder)
    \/ \E m \in voteSenders : VoteSend(m)
    \/ \E n \in Nodes : HandleRequestVote(n)
    \/ \E g \in voteNotifiers : ReceiveVote(g)
    \/ \E b \in broadcasters : HeartbeatCheck(b)
    \/ \E b \in broadcasters : HeartbeatSend(b)
    \/ \E n \in Nodes : HandleHeartbeat(n)

SpecDemote == Init /\ [][NextDemote]_vars

\* The timer of node n expires when n is the next node of the order.
OrderedFire(n, order) ==
    /\ elections < Len(order)
    /\ order[elections + 1] = n
    /\ TimerFire(n)

\* main is between the first lock of its scan and the end of its crash block.
MainBusy == (mainPc = "scan" /\ scanned > 0) \/ mainPc = "crash"

\* A goroutine that neither sleeps for an election timeout nor waits in a
\* select can run: a vote sender, a vote notifier, a heartbeat send, main
\* inside its scan.
PromptReady ==
    \/ \E m \in voteSenders : ENABLED VoteSend(m)
    \/ voteNotifiers # {}
    \/ \E b \in broadcasters : ENABLED HeartbeatSend(b)
    \/ MainBusy

\* main's first sleep ends once a node is Leader.
MainWakes == MainScan /\ \E n \in Nodes : state[n] = Leader

\* The schedule of the crash scenario: the build keeps a fired timer value
\* across Stop and Reset, the timers expire and the elections start in the
\* order CrashOrder, and the goroutines of PromptReady run before any timer,
\* any select of an event loop and the end of main's sleep.
InitAsync == Init /\ asyncTimerChan

NextCrash ==
    \/ \E m \in voteSenders : VoteSend(m)
    \/ \E g \in voteNotifiers : ReceiveVote(g)
    \/ \E b \in broadcasters : HeartbeatSend(b)
    \/ MainBusy /\ MainScan
    \/ MainCrash
    \/ /\ ~PromptReady
       /\ \/ \E n \in Nodes : OrderedFire(n, CrashOrder)
          \/ \E n \in Nodes : OrderedTimeout(n, CrashOrder)
          \/ \E n \in Nodes : HandleRequestVote(n)
          \/ \E b \in broadcasters : HeartbeatCheck(b)
          \/ \E n \in Nodes : HandleHeartbeat(n)
          \/ MainWakes

SpecCrash == InitAsync /\ [][NextCrash]_vars

\* The steps of the nodes of a cluster of 1..MaxCluster nodes, with the code of
\* RaftNode as it is and the body of main's loops over nodes.
InitCluster == \E k \in 1..MaxCluster : NewCluster(1..k)

NextCluster ==
    \/ \E n \in Nodes : TimerFire(n)
    \/ \E n \in Nodes : ElectionTimeout(n)
    \/ \E m \in voteSenders : VoteSend(m)
    \/ \E n \in Nodes : HandleRequestVote(n)
    \/ \E g \in voteNotifiers : ReceiveVote(g)
    \/ \E b \in broadcasters : HeartbeatCheck(b)
    \/ \E b \in broadcasters : HeartbeatSend(b)
    \/ \E n \in Nodes : HandleHeartbeat(n)

SpecCluster == InitCluster /\ [][NextCluster]_vars

\* The steps of the three nodes while main is asleep, in the runs in which only
\* the election timer of node 1 fires.
NextHappy ==
    \/ \E n \in Nodes : OrderedFire(n, HappyOrder)
    \/ \E n \in Nodes : OrderedTimeout(n, HappyOrder)
    \/ \E m \in voteSenders : VoteSend(m)
    \/ \E n \in Nodes : HandleRequestVote(n)
    \/ \E g \in voteNotifiers : ReceiveVote(g)
    \/ \E b \in broadcasters : HeartbeatCheck(b)
    \/ \E b \in broadcasters : HeartbeatSend(b)
    \/ \E n \in Nodes : HandleHeartbeat(n)

SpecHappy == Init /\ [][NextHappy]_vars

\* A channel send that can complete: the goroutines that only send run before
\* any timer and any select of an event loop.
SendReady ==
    \/ \E m \in voteSenders : ENABLED VoteSend(m)
    \/ \E b \in broadcasters : ENABLED HeartbeatSend(b)

\* The steps of the nodes and of their heartbeat loops while main is asleep,
\* with the timers expiring and the elections starting in the order
\* StableOrder, and with every send completing as soon as it can.
NextStable ==
    \/ \E m \in voteSenders : VoteSend(m)
    \/ \E b \in broadcasters : HeartbeatSend(b)
    \/ /\ ~SendReady
       /\ \/ \E n \in Nodes : OrderedFire(n, StableOrder)
          \/ \E n \in Nodes : OrderedTimeout(n, StableOrder)
          \/ \E n \in Nodes : HandleRequestVote(n)
          \/ \E g \in voteNotifiers : ReceiveVote(g)
          \/ \E b \in broadcasters : HeartbeatCheck(b)
          \/ \E n \in Nodes : HandleHeartbeat(n)

SpecStable == Init /\ [][NextStable]_vars

\* The timed runs.  Time is counted in heartbeat intervals (the 50 ms of
\* time.Sleep in sendHeartbeats).  An election timeout is 150 + rand.Intn(150)
\* ms: at least MinTimeout intervals and less than MaxTimeout + 1.
MinTimeout == 3
MaxTimeout == 5

\* Bound on the heartbeat rounds of a timed run: time stops when the next round
\* would exceed it.
MaxBeats == 6

\* In the timed runs a pending timer carries the number of intervals left
\* before it expires, in the field left.  NewTimer and TimerReset give a timer
\* without it: the duration is drawn by DrawTimeout, in the same instant.
HasDeadline(t) == "left" \in DOMAIN t
Undrawn(n) == electionTimer[n].armed /\ ~HasDeadline(electionTimer[n])
Due(n) ==
    /\ electionTimer[n].armed
    /\ HasDeadline(electionTimer[n])
    /\ electionTimer[n].left = 0

\* The argument of time.NewTimer and of electionTimer.Reset:
\* time.Duration(150+rand.Intn(150)) * time.Millisecond.
DrawTimeout(n) ==
    /\ Undrawn(n)
    /\ \E d \in MinTimeout..MaxTimeout :
          electionTimer' = [electionTimer EXCEPT ![n] =
                               [armed |-> TRUE, fired |-> @.fired, left |-> d]]
    /\ UNCHANGED <<nodeVars, voteReqChan, heartbeatChan, voteSenders, voteNotifiers,
                   broadcasters, mainVars, successor, asyncTimerChan, peers, countVars>>

\* Every pending timer has its duration.
AllDrawn == \A n \in Nodes : ~Undrawn(n)

\* The runtime fires a timer whose duration has elapsed.
TimedFire(n) ==
    /\ AllDrawn
    /\ Due(n)
    /\ TimerFire(n)

\* The timer case of the select: the event loop, idle when its timer expires,
\* takes it at once.
TimedTimeout(n) ==
    /\ AllDrawn
    /\ \A m \in Nodes : ~Due(m)
    /\ startElection(n)

\* No timer is due and no expiry waits for its event loop: what is left to do
\* in this instant is the delivery and the handling of messages.
Settled ==
    /\ AllDrawn
    /\ \A n \in Nodes : ~Due(n) /\ ~electionTimer[n].fired

\* sendHeartbeats in the timed runs, top of the loop: as HeartbeatCheck, for a
\* loop that is not asleep, in the runs of at most MaxBeats rounds.
TimedCheck(b) ==
    /\ Settled
    /\ b \in broadcasters
    /\ b.pc = "check"
    /\ ~KeepsBroadcasting(state[b.id]) \/ rounds < MaxBeats
    /\ IF ~KeepsBroadcasting(state[b.id])
       THEN /\ broadcasters' = broadcasters \ {b}
            /\ UNCHANGED rounds
       ELSE /\ rounds' = rounds + 1
            /\ broadcasters' =
                 (broadcasters \ {b}) \cup
                 {IF FirstPeer(b.id) = 0
                  THEN [b EXCEPT !.pc = "sleep"]
                  ELSE [b EXCEPT !.pc = "send", !.term = currentTerm[b.id],
                                 !.next = FirstPeer(b.id)]}
    /\ UNCHANGED <<nodeVars, electionTimer, voteReqChan, heartbeatChan, voteSenders,
                   voteNotifiers, mainVars, successor, asyncTimerChan, peers, elections>>

\* sendHeartbeats in the timed runs, one iteration of the loop over rn.peers: as
\* HeartbeatSend, but after the last peer the loop is in
\* time.Sleep(50 * time.Millisecond) until the next interval.
TimedSend(b) ==
    /\ Settled
    /\ b \in broadcasters
    /\ b.pc = "send"
    /\ Len(heartbeatChan[b.next]) < MaxQueue
    /\ heartbeatChan' = [heartbeatChan EXCEPT ![b.next] =
                             Append(@, HeartbeatArgs(b.term, b.id))]
    /\ broadcasters' =
         (broadcasters \ {b}) \cup
         {IF NextPeer(b.id, b.next) = 0
          THEN [NewBroadcaster(b.id, b.born) EXCEPT !.pc = "sleep"]
          ELSE [b EXCEPT !.next = NextPeer(b.id, b.next)]}
    /\ UNCHANGED <<nodeVars, electionTimer, voteReqChan, voteSenders, voteNotifiers,
                   mainVars, successor, asyncTimerChan, peers, countVars>>

\* Something is still to be delivered or handled in this instant.
Busy ==
    \/ voteSenders # {}
    \/ voteNotifiers # {}
    \/ \E n \in Nodes : voteReqChan[n] # <<>> \/ heartbeatChan[n] # <<>>
    \/ \E b \in broadcasters : b.pc # "sleep"

\* One heartbeat interval passes: every pending timer is one interval nearer to
\* its expiry and the sleeping heartbeat loops wake up.  Messages are delivered
\* and handled promptly: time does not pass while something is to be done.
Tick ==
    /\ Settled
    /\ ~Busy
    /\ electionTimer' =
         [n \in Nodes |->
             IF electionTimer[n].armed
             THEN [electionTimer[n] EXCEPT !.left = @ - 1]
             ELSE electionTimer[n]]
    /\ broadcasters' = {[b EXCEPT !.pc = "check"] : b \in broadcasters}
    /\ UNCHANGED <<nodeVars, voteReqChan, heartbeatChan, voteSenders, voteNotifiers,
                   mainVars, successor, asyncTimerChan, peers, countVars>>

\* The steps of the three nodes and of their heartbeat loops in the timed runs;
\* main is asleep (time.Sleep(2 * time.Second)).
NextTimed ==
    \/ \E n \in Nodes : DrawTimeout(n)
    \/ \E n \in Nodes : TimedFire(n)
    \/ \E n \in Nodes : TimedTimeout(n)
    \/ Settled /\ \E m \in voteSenders : VoteSend(m)
    \/ Settled /\ \E n \in Nodes : HandleRequestVote(n)
    \/ Settled /\ \E g \in voteNotifiers : ReceiveVote(g)
    \/ \E b \in broadcasters : TimedCheck(b)
    \/ \E b \in broadcasters : TimedSend(b)
    \/ Settled /\ \E n \in Nodes : HandleHeartbeat(n)
    \/ Tick

SpecTimed == Init /\ [][NextTimed]_vars

----------------------------------------------------------------------------
\* C1: single leader per term -- there are never two distinct nodes that are
\* both Leader with equal currentTerm.
C1_SingleLeaderPerTerm ==
    \A a, b \in Nodes :
        (a # b /\ state[a] = Leader /\ state[b] = Leader)
            => currentTerm[a] # currentTerm[b]

\* The nodes known to have voted for candidate c in term t when a vote
\* notification reaches c as Candidate of term t: c itself (startElection) and
\* the voters whose notification for (t, c) is still to be delivered.  None has
\* been delivered before: it would have found c Candidate of term t and made
\* it Leader already.
VotesGranted(c, t) ==
    {c} \cup {g.voter : g \in {h \in voteNotifiers : h.args = RequestVoteArgs(t, c)}}

\* C2: quorum -- a node becomes Leader of its currentTerm only when the nodes
\* that granted it a vote for that term, itself included, number at least Quorum.
C2_QuorumBeforeLeader ==
    [][\A c \in Nodes :
          (state[c] # Leader /\ state'[c] = Leader)
              => Cardinality(VotesGranted(c, currentTerm[c])) >= Quorum]_vars

\* C3: stale vote replies are discarded -- delivering the notification of a vote
\* granted for term t to a node that is not Candidate of term t changes neither
\* its state nor the set of heartbeat loops.
C3_StaleVoteDiscarded ==
    [][\A g \in voteNotifiers \ voteNotifiers' :
          ~(state[g.args.CandidateID] = Candidate
              /\ currentTerm[g.args.CandidateID] = g.args.Term)
              => (state' = state /\ broadcasters' = broadcasters)]_vars

\* A timer has fired at a node that is not Leader and the election order of the
\* run keeps the node from handling it: the run leaves the runs modelled.
TimeoutHeld(order) ==
    \E n \in Nodes :
        /\ electionTimer[n].fired
        /\ state[n] # Leader
        /\ ~(elections < Len(order) /\ order[elections + 1] = n)

\* C4: liveness -- with every message delivered and every armed timer firing,
\* some node is eventually Leader (in the runs in which no timeout is held back
\* by the election order).
C4_EventuallyLeader ==
    <>(\/ \E n \in Nodes : state[n] = Leader
       \/ TimeoutHeld(SplitOrder))

\* C5: vote uniqueness -- while a node's currentTerm stays the same its votedFor,
\* once set, does not change, and every vote notification it starts is for the
\* candidate in votedFor and for its currentTerm; so the node votes for at most
\* one candidate in a term.
C5_VoteUniqueness ==
    [][/\ \A v \in Nodes :
            (currentTerm'[v] = currentTerm[v] /\ votedFor[v] # NoVote)
                => votedFor'[v] = votedFor[v]
       /\ \A g \in voteNotifiers' \ voteNotifiers :
            /\ g.args.CandidateID = votedFor'[g.voter]
            /\ g.args.Term = currentTerm'[g.voter]]_vars

\* A node that has voted is about to handle the request of another candidate of
\* the same term.
C5_Witness ==
    \E v \in Nodes :
        /\ voteReqChan[v] # <<>>
        /\ Head(voteReqChan[v]).Term = currentTerm[v]
        /\ votedFor[v] # NoVote
        /\ votedFor[v] # Head(voteReqChan[v]).CandidateID

\* C6: term monotonicity -- no step lowers the currentTerm of a node.
C6_TermMonotonic ==
    [][\A n \in Nodes : currentTerm'[n] >= currentTerm[n]]_vars

\* A node is about to handle a heartbeat or a vote request of a term lower than
\* its own.
C6_Witness ==
    \E n \in Nodes :
        \/ heartbeatChan[n] # <<>> /\ Head(heartbeatChan[n]).Term < currentTerm[n]
        \/ voteReqChan[n] # <<>> /\ Head(voteReqChan[n]).Term < currentTerm[n]

\* C7: demotion correctness -- a Leader that handles a RequestVote or a
\* Heartbeat of a term above its own ends the handler as Follower of that term;
\* and a heartbeat loop started for a term the node has since left for a higher
\* one returns at its next test of the state (it starts no further round).
C7_DemotionCorrect ==
    [][/\ \A n \in Nodes :
            (/\ state[n] = Leader
             /\ Len(voteReqChan'[n]) < Len(voteReqChan[n])
             /\ Head(voteReqChan[n]).Term > currentTerm[n])
                => (state'[n] = Follower /\ currentTerm'[n] = Head(voteReqChan[n]).Term)
       /\ \A n \in Nodes :
            (/\ state[n] = Leader
             /\ Len(heartbeatChan'[n]) < Len(heartbeatChan[n])
             /\ Head(heartbeatChan[n]).Term > currentTerm[n])
                => (state'[n] = Follower /\ currentTerm'[n] = Head(heartbeatChan[n]).Term)
       /\ \A b \in broadcasters \ broadcasters' :
            (b.pc = "check" /\ b.born < currentTerm[b.id])
                => ~\E c \in broadcasters' : c.id = b.id /\ c.born = b.born]_vars

\* No goroutine of the program can take a step: no timer is armed or holds a
\* fired value, no message is queued, no sender, notifier or heartbeat loop is
\* left, and main is past its crash block.
Quiescent ==
    /\ \A n \in Nodes : ~electionTimer[n].armed /\ ~electionTimer[n].fired
    /\ \A n \in Nodes : voteReqChan[n] = <<>> /\ heartbeatChan[n] = <<>>
    /\ voteSenders = {} /\ voteNotifiers = {} /\ broadcasters = {}
    /\ mainPc = "done"

\* C9: leader-crash re-election -- once main has crashed the Leader of term T,
\* one of the other two nodes becomes Leader of a term above T: the program
\* does not come to rest before that has happened.
C9_CrashReelection == (crashTerm # -1 /\ Quiescent) => successor

\* C8: no heartbeat after demotion -- whenever a heartbeat is put on a channel,
\* the node named as its sender is Leader.
C8_SendsOnlyWhileLeader ==
    [][\A n \in Nodes :
          Len(heartbeatChan'[n]) > Len(heartbeatChan[n])
              => state[heartbeatChan'[n][Len(heartbeatChan'[n])].LeaderID] = Leader]_vars

\* C10: stopped node stays stopped -- once main has crashed a node, the election
\* timer of that node is not armed and the node is not Candidate.
C10_StoppedStaysStopped ==
    (mainPc = "done" /\ leader # 0)
        => (~electionTimer[leader].armed /\ state[leader] # Candidate)

\* C11: no stale timeout after reset -- when the event loop takes a value from
\* timer.C and runs startElection, the timer is not pending: the value does not
\* come from an arming that a later Reset has replaced.
C11_NoStaleTimeout ==
    [][\A n \in Nodes :
          (/\ electionTimer[n].fired
           /\ electionTimer'[n] = [electionTimer[n] EXCEPT !.fired = FALSE])
              => ~electionTimer[n].armed]_vars

\* C12: leader stability -- apart from main's crash block, a Leader stops being
\* Leader only in a step in which it handles a RequestVote or a Heartbeat of a
\* term above its currentTerm, and a heartbeat loop that finds its node Leader
\* goes on.
C12_LeaderStability ==
    [][/\ \A n \in Nodes :
            (state[n] = Leader /\ state'[n] # Leader /\ mainPc # "crash")
                => \/ /\ Len(voteReqChan'[n]) < Len(voteReqChan[n])
                      /\ Head(voteReqChan[n]).Term > currentTerm[n]
                   \/ /\ Len(heartbeatChan'[n]) < Len(heartbeatChan[n])
                      /\ Head(heartbeatChan[n]).Term > currentTerm[n]
       /\ \A b \in broadcasters \ broadcasters' :
            (b.pc = "check" /\ state[b.id] = Leader)
                => \E c \in broadcasters' : c.id = b.id /\ c.born = b.born]_vars

\* C13: votedFor is reset on every term advance -- a node that adopts a higher
\* term from a Heartbeat ends the handler with votedFor = none, and one that
\* adopts it from a RequestVote ends the handler with votedFor = none or with
\* the vote it has just given to the sender in the new term.
C13_VotedForReset ==
    [][\A n \in Nodes :
          /\ (/\ Len(heartbeatChan'[n]) < Len(heartbeatChan[n])
              /\ currentTerm'[n] > currentTerm[n])
                 => votedFor'[n] = NoVote
          /\ (/\ Len(voteReqChan'[n]) < Len(voteReqChan[n])
              /\ currentTerm'[n] > currentTerm[n])
                 => votedFor'[n] \in {NoVote, Head(voteReqChan[n]).CandidateID}]_vars

HappyEnd ==
    /\ elections = 1
    /\ voteSenders = {}
    /\ voteNotifiers = {}
    /\ \A n \in Nodes : voteReqChan[n] = <<>>

\* C15: three-node happy path -- when only node 1's timer fires, no node ever
\* has a term above 1, nodes 2 and 3 are never anything but Follower, and once
\* the election is over node 1 is Leader and every node has term 1 and
\* votedFor = 1, heartbeats or not.
C15_HappyPath ==
    /\ \A n \in Nodes : currentTerm[n] <= 1
    /\ \A n \in Nodes \ {1} : state[n] = Follower
    /\ HappyEnd => /\ state[1] = Leader
                   /\ \A n \in Nodes : currentTerm[n] = 1 /\ votedFor[n] = 1

\* The election is over, node 1 has sent a round of heartbeats and nodes 2 and
\* 3 have handled them.
C15_Witness ==
    /\ HappyEnd
    /\ rounds >= 1
    /\ \A b \in broadcasters : b.pc = "check"
    /\ \A n \in Nodes : heartbeatChan[n] = <<>>

\* C16: a Candidate of term t that handles a Heartbeat of term t becomes
\* Follower, keeps currentTerm = t and has its election timer armed.
C16_CandidateStepsDownOnHeartbeat ==
    [][\A n \in Nodes :
          (/\ state[n] = Candidate
           /\ Len(heartbeatChan'[n]) < Len(heartbeatChan[n])
           /\ Head(heartbeatChan[n]).Term = currentTerm[n])
              => /\ state'[n] = Follower
                 /\ currentTerm'[n] = currentTerm[n]
                 /\ electionTimer'[n].armed]_vars

\* A node that stood in term 1 (it voted for itself there) is Follower of term 1
\* with an armed timer, having handled the heartbeat of another node of term 1.
C16_Witness ==
    \E n \in Nodes :
        /\ state[n] = Follower /\ currentTerm[n] = 1 /\ votedFor[n] = n
        /\ electionTimer[n].armed
        /\ heartbeatChan[n] = <<>>
        /\ mainPc = "scan" /\ scanned = 0
        /\ \E b \in broadcasters : b.id # n /\ b.born = 1 /\ b.pc = "check" /\ rounds >= 1

\* C17: a Candidate of term t that handles a RequestVote of term t sent by the
\* other candidate, which has won term t, becomes Follower and keeps
\* currentTerm = t.
C17_CandidateStepsDownOnRequestVote ==
    [][\A n \in Nodes :
          (/\ state[n] = Candidate
           /\ Len(voteReqChan'[n]) < Len(voteReqChan[n])
           /\ Head(voteReqChan[n]).Term = currentTerm[n]
           /\ Head(voteReqChan[n]).CandidateID # n
           /\ state[Head(voteReqChan[n]).CandidateID] = Leader
           /\ currentTerm[Head(voteReqChan[n]).CandidateID] = currentTerm[n])
              => /\ state'[n] = Follower
                 /\ currentTerm'[n] = currentTerm[n]]_vars

\* C18: a node that has handled no event yet (only such a node has term 0) is
\* Follower with currentTerm = 0 and votedFor = none, and its election timer is
\* pending or has just expired with the expiry not yet handled.
C18_InitialState ==
    \A n \in Nodes :
        currentTerm[n] = 0
            => /\ state[n] = Follower
               /\ votedFor[n] = NoVote
               /\ electionTimer[n].armed # electionTimer[n].fired

\* A started node that has handled nothing, its timer pending, with the first
\* RequestVote of a peer waiting in its channel.
C18_Witness ==
    \E n \in Nodes :
        /\ currentTerm[n] = 0
        /\ electionTimer[n].armed
        /\ voteReqChan[n] # <<>>

\* C19: a node handles its events in the order of their arrival -- when a
\* Heartbeat arrives at a node where a RequestVote already waits, or a
\* RequestVote where a Heartbeat already waits, or the timer expires while a
\* message already waits, the event loop cannot take the newcomer next.
C19_ArrivalOrder ==
    [][\A n \in Nodes :
          /\ (/\ voteReqChan[n] # <<>> /\ voteReqChan'[n] = voteReqChan[n]
              /\ heartbeatChan[n] = <<>> /\ heartbeatChan'[n] # <<>>)
                 => ~(ENABLED HandleHeartbeat(n))'
          /\ (/\ heartbeatChan[n] # <<>> /\ heartbeatChan'[n] = heartbeatChan[n]
              /\ voteReqChan[n] = <<>> /\ voteReqChan'[n] # <<>>)
                 => ~(ENABLED HandleRequestVote(n))'
          /\ (/\ voteReqChan[n] # <<>> /\ voteReqChan'[n] = voteReqChan[n]
              /\ ~electionTimer[n].fired /\ electionTimer'[n].fired)
                 => ~(ENABLED startElection(n))']_vars

\* C20: the event loop of a node is never blocked by its peers -- whatever the
\* state of the other nodes, of their channels and of the goroutines still
\* sending, an expired timer lets startElection run and a waiting RequestVote
\* or Heartbeat lets its handler run.
C20_EventLoopNeverBlocks ==
    \A n \in Nodes :
        /\ electionTimer[n].fired => ENABLED startElection(n)
        /\ voteReqChan[n] # <<>> => ENABLED HandleRequestVote(n)
        /\ heartbeatChan[n] # <<>> => ENABLED HandleHeartbeat(n)

\* A candidate has a RequestVote of its own that cannot be delivered, the
\* channel of the peer being full, no vote has reached it, and an event waits
\* for its event loop.
C20_Witness ==
    \E m \in voteSenders :
        /\ Len(voteReqChan[m.to]) = MaxQueue
        /\ state[m.args.CandidateID] = Candidate
        /\ \/ voteReqChan[m.args.CandidateID] # <<>>
           \/ electionTimer[m.args.CandidateID].fired

C22_GrantRuleAtEqualTerm ==
    [][\A n \in Nodes :
          (/\ Len(voteReqChan'[n]) < Len(voteReqChan[n])
           /\ Head(voteReqChan[n]).Term = currentTerm[n])
              => /\ currentTerm'[n] = currentTerm[n]
                 /\ state'[n] = state[n]
                 /\ IF votedFor[n] \in {NoVote, Head(voteReqChan[n]).CandidateID}
                    THEN /\ votedFor'[n] = Head(voteReqChan[n]).CandidateID
                         /\ electionTimer'[n].armed
                         /\ voteNotifiers' \ voteNotifiers =
                                {[voter |-> n, args |-> Head(voteReqChan[n])]}
                    ELSE /\ votedFor'[n] = votedFor[n]
                         /\ electionTimer'[n] = electionTimer[n]
                         /\ voteNotifiers' = voteNotifiers]_vars

\* Node n has voted for another node in term 1 and has since handled, and
\* denied, the RequestVote of candidate c of that term, while the node it voted
\* for leads and has sent heartbeats.
C22_Witness ==
    /\ \E n \in Nodes, c \in Nodes :
          /\ c # n /\ state[c] = Candidate
          /\ currentTerm[c] = 1 /\ currentTerm[n] = 1
          /\ votedFor[n] \notin {NoVote, c, n}
          /\ voteReqChan[n] = <<>>
          /\ ~\E m \in voteSenders : m.to = n /\ m.args.CandidateID = c
    /\ rounds >= 1

\* C23: a node in any role that handles RequestVote(t, c) with t above its
\* currentTerm ends the handler with currentTerm = t, state = Follower and
\* votedFor = c, whatever votedFor held, with its timer armed and receiveVote
\* called on c.
C23_HigherTermRequestVote ==
    [][\A n \in Nodes :
          (/\ Len(voteReqChan'[n]) < Len(voteReqChan[n])
           /\ Head(voteReqChan[n]).Term > currentTerm[n])
              => /\ currentTerm'[n] = Head(voteReqChan[n]).Term
                 /\ state'[n] = Follower
                 /\ votedFor'[n] = Head(voteReqChan[n]).CandidateID
                 /\ electionTimer'[n].armed
                 /\ [voter |-> n, args |-> Head(voteReqChan[n])] \in voteNotifiers']_vars

\* Node n led term 1 (its heartbeat loop is still there, and it had voted for
\* itself); it has handled the RequestVote of candidate c of term 2 and is now
\* Follower of term 2 with votedFor = c, the receiveVote call still to run.
C23_Witness ==
    \E n \in Nodes, c \in Nodes :
        /\ c # n
        /\ \E b \in broadcasters : b.id = n /\ b.born = 1
        /\ state[n] = Follower /\ currentTerm[n] = 2 /\ votedFor[n] = c
        /\ [voter |-> n, args |-> RequestVoteArgs(2, c)] \in voteNotifiers

\* C24: a node that handles a RequestVote whose term is below its currentTerm
\* keeps currentTerm, state, votedFor and election timer as they are, and no
\* receiveVote is called on the candidate.
C24_LowerTermRequestVote ==
    [][\A n \in Nodes :
          (/\ Len(voteReqChan'[n]) < Len(voteReqChan[n])
           /\ Head(voteReqChan[n]).Term < currentTerm[n])
              => /\ currentTerm'[n] = currentTerm[n]
                 /\ state'[n] = state[n]
                 /\ votedFor'[n] = votedFor[n]
                 /\ electionTimer'[n] = electionTimer[n]
                 /\ voteNotifiers' = voteNotifiers]_vars

\* The event loop of a node whose vote is free is about to handle a RequestVote
\* of a term below the node's own: the node took term 2 from a heartbeat, and
\* the RequestVote of term 1 reaches it only now.
C24_Witness ==
    \E n \in Nodes :
        /\ voteReqChan[n] # <<>>
        /\ Head(voteReqChan[n]).Term < currentTerm[n]
        /\ votedFor[n] = NoVote
        /\ ENABLED HandleRequestVote(n)

\* C25: a node in any role that handles Heartbeat(t, l) with t at or above its
\* currentTerm ends the handler with currentTerm = t, state = Follower and its
\* election timer armed.
C25_HeartbeatAcceptance ==
    [][\A n \in Nodes :
          (/\ Len(heartbeatChan'[n]) < Len(heartbeatChan[n])
           /\ Head(heartbeatChan[n]).Term >= currentTerm[n])
              => /\ currentTerm'[n] = Head(heartbeatChan[n]).Term
                 /\ state'[n] = Follower
                 /\ electionTimer'[n].armed]_vars

\* Node n led term 1 (its heartbeat loop is still there and its vote of term 1,
\* for itself, was never replaced); the one other election made node m Leader
\* of term 2, and n has handled a heartbeat of m: it is Follower of term 2
\* with an armed timer.
C25_Witness ==
    \E n \in Nodes, m \in Nodes :
        /\ m # n
        /\ \E b \in broadcasters : b.id = n /\ b.born = 1
        /\ \E b \in broadcasters : b.id = m /\ b.born = 2
        /\ state[m] = Leader
        /\ state[n] = Follower /\ currentTerm[n] = 2 /\ votedFor[n] = n
        /\ electionTimer[n].armed
        /\ heartbeatChan[n] = <<>>
        /\ mainPc = "scan" /\ scanned = 0

\* C26: a node that handles a Heartbeat whose term is below its currentTerm
\* keeps currentTerm, state, votedFor and election timer as they are.
C26_StaleHeartbeatIgnored ==
    [][\A n \in Nodes :
          (/\ Len(heartbeatChan'[n]) < Len(heartbeatChan[n])
           /\ Head(heartbeatChan[n]).Term < currentTerm[n])
              => /\ currentTerm'[n] = currentTerm[n]
                 /\ state'[n] = state[n]
                 /\ votedFor'[n] = votedFor[n]
                 /\ electionTimer'[n] = electionTimer[n]]_vars

\* The event loop of a Candidate is about to handle the heartbeat of a leader
\* of an earlier term.
C26_Witness ==
    \E n \in Nodes :
        /\ heartbeatChan[n] # <<>>
        /\ Head(heartbeatChan[n]).Term < currentTerm[n]
        /\ state[n] = Candidate
        /\ ENABLED HandleHeartbeat(n)

\* C27: an election timeout handled by a Leader changes neither currentTerm nor
\* state nor votedFor and sends no RequestVote; and the election timer of a
\* node is never armed while the node is Leader.
C27_LeaderTimeoutNoOp ==
    [][\A n \in Nodes :
          /\ (/\ state[n] = Leader
              /\ electionTimer[n].fired /\ ~electionTimer'[n].fired
              /\ voteReqChan'[n] = voteReqChan[n]
              /\ heartbeatChan'[n] = heartbeatChan[n]
              /\ mainPc' = mainPc)
                 => /\ currentTerm'[n] = currentTerm[n]
                    /\ state'[n] = Leader
                    /\ votedFor'[n] = votedFor[n]
                    /\ voteSenders' = voteSenders
          /\ state'[n] = Leader => ~electionTimer'[n].armed]_vars

\* C28: in the timed runs, with heartbeats every interval, election timeouts of
\* MinTimeout intervals or more and messages delivered promptly, while a node
\* is Leader the election timer of no other node fires, no other node becomes
\* Candidate, and no node has a term above the Leader's.
C28_NoTimeoutUnderLeader ==
    [][\A n \in Nodes :
          /\ (\/ ~electionTimer[n].fired /\ electionTimer'[n].fired
              \/ state'[n] = Candidate /\ currentTerm'[n] > currentTerm[n])
                 => ~\E l \in Nodes \ {n} : state[l] = Leader
          /\ \A l \in Nodes :
                state'[l] = Leader => currentTerm'[n] <= currentTerm'[l]]_vars

\* A Leader has started more heartbeat rounds than the longest election timeout
\* has intervals, and the other two nodes are Followers of its term whose
\* timers are pending.
C28_Witness ==
    \E l \in Nodes :
        /\ state[l] = Leader
        /\ rounds > MaxTimeout
        /\ \A n \in Nodes \ {l} :
              /\ state[n] = Follower
              /\ currentTerm[n] = currentTerm[l]
              /\ electionTimer[n].armed

\* C29: a node becomes Leader only in a step in which it was Candidate, and
\* that step starts exactly one sendHeartbeats loop for it; a receiveVote on a
\* node that is Follower or already Leader changes no node and starts no loop.
C29_LeaderOnlyFromCandidate ==
    [][/\ \A n \in Nodes :
            (state'[n] = Leader /\ state[n] # Leader)
                => /\ state[n] = Candidate
                   /\ NewBroadcaster(n, currentTerm[n]) \notin broadcasters
                   /\ broadcasters' =
                        broadcasters \cup {NewBroadcaster(n, currentTerm[n])}
       /\ \A g \in voteNotifiers \ voteNotifiers' :
            state[g.args.CandidateID] # Candidate
                => /\ state' = state
                   /\ currentTerm' = currentTerm
                   /\ votedFor' = votedFor
                   /\ broadcasters' = broadcasters]_vars

\* Both peers have granted node l their vote of term 1 and both receiveVote
\* calls have returned, the second one on a Leader: one loop runs for l.
C29_Witness ==
    \E l \in Nodes :
        /\ state[l] = Leader
        /\ \A n \in Nodes : currentTerm[n] = 1 /\ votedFor[n] = l
        /\ voteNotifiers = {}
        /\ Cardinality({b \in broadcasters : b.id = l}) = 1

\* C30: at every moment at most one sendHeartbeats loop exists for a node, also
\* when the node is demoted and wins again before its earlier loop has tested
\* the state again.
C30_OneBroadcasterPerNode ==
    \A n \in Nodes : Cardinality({b \in broadcasters : b.id = n}) <= 1

\* C31: a node that is Candidate or Leader has votedFor equal to its own id, and
\* a step that makes a node Candidate, or a Candidate of a new term, adds
\* exactly 1 to its term and sets votedFor to its id in that same step.
C31_SelfVote ==
    [][\A n \in Nodes :
          /\ state'[n] \in {Candidate, Leader} => votedFor'[n] = n
          /\ (/\ state'[n] = Candidate
              /\ state[n] # Candidate \/ currentTerm'[n] # currentTerm[n])
                 => /\ currentTerm'[n] = currentTerm[n] + 1
                    /\ votedFor'[n] = n]_vars

\* Node l is Leader and node c Candidate of one term, each with its own vote,
\* after each has handled, and denied, the RequestVote of the other.
C31_Witness ==
    \E l \in Nodes, c \in Nodes :
        /\ state[l] = Leader /\ state[c] = Candidate
        /\ currentTerm[l] = currentTerm[c]
        /\ votedFor[l] = l /\ votedFor[c] = c
        /\ voteReqChan[l] = <<>> /\ voteReqChan[c] = <<>>
        /\ ~\E m \in voteSenders : m.to \in {l, c}

\* C32: a sendHeartbeats loop takes the term of a round while its node is Leader
\* and takes the node's currentTerm; every Heartbeat put into a channel carries
\* the term and the id of such a round and goes to a peer other than the
\* sender; so every Heartbeat in a channel has a sender other than the receiver
\* and a term between 1 and the sender's currentTerm.
C32_HeartbeatTermValid ==
    [][/\ \A b \in broadcasters' :
            (b.pc = "send" /\ ~\E a \in broadcasters :
                                  a.pc = "send" /\ a.id = b.id /\ a.born = b.born)
                => /\ state[b.id] = Leader
                   /\ b.term = currentTerm[b.id]
       /\ \A n \in Nodes :
            Len(heartbeatChan'[n]) > Len(heartbeatChan[n])
                => \E b \in broadcasters :
                      /\ b.pc = "send" /\ b.next = n /\ b.id # n
                      /\ heartbeatChan'[n] =
                            Append(heartbeatChan[n], HeartbeatArgs(b.term, b.id))
       /\ \A n \in Nodes : \A i \in 1..Len(heartbeatChan'[n]) :
            /\ heartbeatChan'[n][i].LeaderID # n
            /\ heartbeatChan'[n][i].Term >= 1
            /\ heartbeatChan'[n][i].Term <= currentTerm'[heartbeatChan'[n][i].LeaderID]]_vars

\* A Heartbeat of term 1 waits in the channel of a peer while its sender, which
\* took the term as Leader, has since become Follower of term 2.
C32_Witness ==
    \E n \in Nodes :
        /\ heartbeatChan[n] # <<>>
        /\ Head(heartbeatChan[n]).Term = 1
        /\ state[Head(heartbeatChan[n]).LeaderID] = Follower
        /\ currentTerm[Head(heartbeatChan[n]).LeaderID] = 2

====
